---- MODULE Spec2Model ----
(***************************************************************************)
(* gtfierro/shapes: the shape algebra (shapgebra.py) and the template      *)
(* synthesis context (shape2template.py) over an rdflib constraint graph.  *)
(*                                                                         *)
(* A constraint graph is a set of triples <<s, p, o>> of strings.  Blank   *)
(* nodes are the strings of BNodes; every other string is an IRI.          *)
(***************************************************************************)
EXTENDS Naturals, Integers, Sequences, FiniteSets, TLC

VARIABLES
    graph,   \* the rdflib.Graph the ShapeGraph / Context is built over
    pc,      \* position of the driver: "start", "indexed", "queried", ...
    sg,      \* the ShapeGraph object (its nodes list), or the exception raised
    out,     \* the result of the last call made on the ShapeGraph / Path
    ctx,     \* the Context object: root_shapes, templates, gensym draws
    res      \* the mapping returned by Context.to_dict

vars == <<graph, pc, sg, out, ctx, res>>

None == "None"

----------------------------------------------------------------------------
(* Vocabulary                                                              *)

RDF_type == "rdf:type"
RDF_first == "rdf:first"
RDF_rest == "rdf:rest"
RDF_nil == "rdf:nil"

SH_NodeShape == "sh:NodeShape"
SH_PropertyShape == "sh:PropertyShape"
SH_node == "sh:node"
SH_property == "sh:property"
SH_class == "sh:class"
SH_targetClass == "sh:targetClass"
SH_targetNode == "sh:targetNode"
SH_targetObjectsOf == "sh:targetObjectsOf"
SH_targetSubjectsOf == "sh:targetSubjectsOf"
SH_or == "sh:or"
SH_not == "sh:not"
SH_path == "sh:path"
SH_inversePath == "sh:inversePath"
SH_zeroOrOnePath == "sh:zeroOrOnePath"
SH_oneOrMorePath == "sh:oneOrMorePath"
SH_zeroOrMorePath == "sh:zeroOrMorePath"
SH_alternativePath == "sh:alternativePath"
SH_qualifiedValueShape == "sh:qualifiedValueShape"

\* Depth of the path expressions the path specification draws.
MaxPathDepth == 2

\* Positions in a path expression: the root is <<>>, child i of pos is
\* Append(pos, i).
RECURSIVE Positions(_)
Positions(d) ==
    IF d = 0 THEN {<<>>}
    ELSE Positions(d - 1)
           \cup {Append(pos, i) : pos \in Positions(d - 1), i \in 1..2}

\* The blank node of the path expression at pos, and its k-th list cell.
PathBNode(pos) == "_:" \o ToString(pos)

PathCell(pos, k) == "_:" \o ToString(pos) \o "#" \o ToString(k)

\* Blank node labels used by the documents of this development.
BNodes ==
    {"_:b1", "_:b2", "_:l1", "_:l1r", "_:l1s", "_:l2", "_:l2r", "_:l2s",
     "_:q1", "_:q2", "_:b3", "_:b4", "_:b5", "_:b6", "_:b7", "_:b8",
     "_:x3", "_:x4", "_:x5", "_:x6", "_:r1", "_:r2", "_:l3", "_:l4"}
    \cup {PathBNode(pos) : pos \in Positions(MaxPathDepth)}
    \cup {PathCell(pos, k) : pos \in Positions(MaxPathDepth), k \in 1..2}

IsBNode(n) == n \in BNodes

----------------------------------------------------------------------------
(* The store interface (rdflib.Graph), as the two programs call it          *)

\* A pattern position matches a term when it is None (any) or that term.
Match(term, pattern) == pattern \in {None, term}

Objects(g, s, p) == {t[3] : t \in {u \in g : Match(u[1], s) /\ u[2] = p}}

Subjects(g, p, o) == {t[1] : t \in {u \in g : u[2] = p /\ u[3] = o}}

Predicates(g, s) == {t[2] : t \in {u \in g : Match(u[1], s)}}

\* graph.value(s, p): one object, or None; the choice among several objects
\* is the store's (stable, implementation-defined).
Value(g, s, p) ==
    IF Objects(g, s, p) = {} THEN None ELSE CHOOSE o \in Objects(g, s, p) : TRUE

\* A set in the store's iteration order (stable, implementation-defined).
RECURSIVE SetToSeq(_)
SetToSeq(S) ==
    IF S = {} THEN <<>>
    ELSE LET x == CHOOSE y \in S : TRUE IN <<x>> \o SetToSeq(S \ {x})

\* The subjects whose statements a concise bounded description holds: the
\* node, and every blank node reached from one of them as an object.
RECURSIVE CBDSubjects(_, _, _)
CBDSubjects(g, frontier, seen) ==
    IF frontier = {} THEN seen
    ELSE LET next == {t[3] : t \in {u \in g : u[1] \in frontier /\ IsBNode(u[3])}}
         IN CBDSubjects(g, next \ (seen \cup frontier), seen \cup frontier)

\* graph.cbd(node): the statements of the node and, recursively, of the blank
\* nodes that are their objects (statements of any subject when node is None).
CBD(g, node) ==
    {t \in g :
        t[1] \in CBDSubjects(g, {s \in {u[1] : u \in g} : Match(s, node)}, {})}

\* Graph.all_nodes(): subjects and objects.
AllNodes(g) == {t[1] : t \in g} \cup {t[3] : t \in g}

\* rdflib Collection(graph, head) read as a list: follow rdf:rest from head,
\* yielding each rdf:first; rdf:nil and any node without rdf:rest end it.
RECURSIVE CollectionItems(_, _, _)
CollectionItems(g, l, chain) ==
    IF l = None \/ l \in chain THEN <<>>
    ELSE LET item == Value(g, l, RDF_first)
             rest == Value(g, l, RDF_rest)
         IN (IF item = None THEN <<>> ELSE <<item>>)
              \o CollectionItems(g, rest, chain \cup {l})

Collection(g, head) == CollectionItems(g, head, {})

----------------------------------------------------------------------------
(* shapgebra.py: exceptions, as values                                     *)

Raise(exc) == [kind |-> "Raise", exc |-> exc]

IsRaise(v) == v.kind = "Raise"

\* The first exception raised while a list comprehension evaluates items in
\* order, or None.
RECURSIVE FirstRaise(_)
FirstRaise(s) ==
    IF s = <<>> THEN None
    ELSE IF IsRaise(Head(s)) THEN Head(s).exc
    ELSE FirstRaise(Tail(s))

NoneV == [kind |-> "None"]

IsNone(v) == v.kind = "None"

\* drop_none(l): the items that are not None.
drop_none(l) == SelectSeq(l, LAMBDA x : ~IsNone(x))

\* A str value (an rdflib node) held where the class declares a List[Path].
NodeV(id) == [kind |-> "Node", id |-> id]

ListV(items) == [kind |-> "List", items |-> items]

\* Python truthiness of a field that holds a list or a str.
Truthy(v) == IF v.kind = "List" THEN v.items # <<>> ELSE v.id # ""

----------------------------------------------------------------------------
(* shapgebra.py: Path                                                      *)

\* Path.__init__
NewPath ==
    [kind |-> "Path", _name |-> None,
     predicatePath |-> None,
     sequencePath |-> ListV(<<>>),
     alternativePath |-> ListV(<<>>),
     inversePath |-> NoneV,
     zeroOrOnePath |-> NoneV,
     oneOrMorePath |-> NoneV,
     zeroOrMorePath |-> NoneV]

\* Path.parse.  stk holds the calls on the Python stack; a call that is on
\* the stack already never returns (RecursionError).
RECURSIVE PathParse(_, _, _)
PathParse(g, node, stk) ==
    IF node = None THEN NoneV
    ELSE IF <<"Path", node>> \in stk THEN Raise("RecursionError")
    ELSE
    LET p == [NewPath EXCEPT !._name = node]
        path == node
        pathlist == Collection(g, path)
        sub(n) == PathParse(g, n, stk \cup {<<"Path", node>>})
        unary(field, pred) ==
            LET child == sub(Value(g, path, pred))
            IN IF IsRaise(child) THEN child ELSE [p EXCEPT ![field] = child]
    IN  IF Value(g, path, SH_inversePath) # None
            THEN unary("inversePath", SH_inversePath)
        ELSE IF Value(g, path, SH_zeroOrOnePath) # None
            THEN unary("zeroOrOnePath", SH_zeroOrOnePath)
        ELSE IF Value(g, path, SH_oneOrMorePath) # None
            THEN unary("oneOrMorePath", SH_oneOrMorePath)
        ELSE IF Value(g, path, SH_zeroOrMorePath) # None
            THEN unary("zeroOrMorePath", SH_zeroOrMorePath)
        ELSE IF Len(pathlist) > 0
            THEN LET kids == [i \in 1..Len(pathlist) |-> sub(pathlist[i])]
                 IN IF FirstRaise(kids) # None THEN Raise(FirstRaise(kids))
                    ELSE [p EXCEPT !.sequencePath = ListV(drop_none(kids))]
        ELSE IF Value(g, path, SH_alternativePath) # None
            THEN [p EXCEPT !.alternativePath =
                               NodeV(Value(g, path, SH_alternativePath))]
        ELSE IF IsBNode(node) THEN Raise("AssertionError")
        ELSE [p EXCEPT !.predicatePath = node]

\* "sep".join(parts)
RECURSIVE Join(_, _)
Join(sep, parts) ==
    IF parts = <<>> THEN ""
    ELSE IF Len(parts) = 1 THEN parts[1]
    ELSE parts[1] \o sep \o Join(sep, Tail(parts))

Returned(v) == [kind |-> "Return", val |-> v]

\* Path.rollup: the string returned, or the exception raised.
RECURSIVE PathRollup(_)
PathRollup(p) ==
    LET suffix(child, op) ==
            LET r == PathRollup(child)
            IN IF IsRaise(r) THEN r ELSE Returned(r.val \o op)
    IN  IF p.predicatePath # None THEN Returned(p.predicatePath)
        ELSE IF Truthy(p.sequencePath)
            THEN LET kids == [i \in 1..Len(p.sequencePath.items) |->
                                 PathRollup(p.sequencePath.items[i])]
                 IN IF FirstRaise(kids) # None THEN Raise(FirstRaise(kids))
                    ELSE Returned(Join("/", [i \in 1..Len(kids) |-> kids[i].val]))
        ELSE IF Truthy(p.alternativePath)
            THEN IF p.alternativePath.kind = "Node"
                    \* iterating a str yields its characters, which are str:
                    \* 'str' object has no attribute 'rollup'
                    THEN Raise("AttributeError")
                 ELSE LET kids == [i \in 1..Len(p.alternativePath.items) |->
                                      PathRollup(p.alternativePath.items[i])]
                      IN IF FirstRaise(kids) # None THEN Raise(FirstRaise(kids))
                         ELSE Returned(Join("|", [i \in 1..Len(kids) |-> kids[i].val]))
        ELSE IF ~IsNone(p.inversePath) THEN suffix(p.inversePath, "^")
        ELSE IF ~IsNone(p.zeroOrOnePath) THEN suffix(p.zeroOrOnePath, "?")
        ELSE IF ~IsNone(p.oneOrMorePath) THEN suffix(p.oneOrMorePath, "+")
        ELSE IF ~IsNone(p.zeroOrMorePath) THEN suffix(p.zeroOrMorePath, "*")
        ELSE Returned("")

----------------------------------------------------------------------------
(* shapgebra.py: the shape model                                           *)

SH_closed == "sh:closed"
SH_minCount == "sh:minCount"
SH_maxCount == "sh:maxCount"
SH_hasValue == "sh:hasValue"
SH_datatype == "sh:datatype"
SH_nodeKind == "sh:nodeKind"
SH_qualifiedMinCount == "sh:qualifiedMinCount"
SH_qualifiedMaxCount == "sh:qualifiedMaxCount"

RECURSIVE NodeShapeParse(_, _, _)
RECURSIVE PropertyShapeParse(_, _, _)

\* [NodeShape.parse(graph, s) for s in nodes]
NodeShapeParseAll(g, nodes, stk) ==
    [i \in 1..Len(nodes) |-> NodeShapeParse(g, nodes[i], stk)]

\* [PropertyShape.parse(graph, ps) for ps in nodes]
PropertyShapeParseAll(g, nodes, stk) ==
    [i \in 1..Len(nodes) |-> PropertyShapeParse(g, nodes[i], stk)]

\* target.targetNode = NodeShape.parse(graph, tn)
WithTargetNode(target, tn) ==
    IF IsRaise(tn) THEN tn ELSE [target EXCEPT !.targetNode = tn]

\* NodeShapeTarget.parse: the first of targetClass, targetNode,
\* targetObjectsOf, targetSubjectsOf that has a value, or None.  An attribute
\* the code leaves unset reads None here.
NodeShapeTargetParse(g, node, stk) ==
    LET target == [kind |-> "NodeShapeTarget", targetClass |-> None,
                   targetNode |-> NoneV, targetObjectsOf |-> None,
                   targetSubjectsOf |-> None]
    IN  IF node = None THEN NoneV
        ELSE IF Value(g, node, SH_targetClass) # None
            THEN [target EXCEPT !.targetClass = Value(g, node, SH_targetClass)]
        ELSE IF Value(g, node, SH_targetNode) # None
            THEN WithTargetNode(
                     target, NodeShapeParse(g, Value(g, node, SH_targetNode), stk))
        ELSE IF Value(g, node, SH_targetObjectsOf) # None
            THEN [target EXCEPT !.targetObjectsOf =
                                    Value(g, node, SH_targetObjectsOf)]
        ELSE IF Value(g, node, SH_targetSubjectsOf) # None
            THEN [target EXCEPT !.targetSubjectsOf =
                                    Value(g, node, SH_targetSubjectsOf)]
        ELSE NoneV

\* OrClause(node, node_shapes=drop_none(...))
NewOrClause(node, parsed) ==
    IF FirstRaise(parsed) # None THEN Raise(FirstRaise(parsed))
    ELSE [kind |-> "OrClause", _name |-> node, node_shapes |-> drop_none(parsed)]

\* OrClause.parse
OrClauseParse(g, node, stk) ==
    IF node = None THEN NoneV
    ELSE NewOrClause(node, NodeShapeParseAll(g, Collection(g, node), stk))

\* assert not_shape is not None; NotClause(node, not_shape=not_shape)
NewNotClause(node, not_shape) ==
    IF IsRaise(not_shape) THEN not_shape
    ELSE IF IsNone(not_shape) THEN Raise("AssertionError")
    ELSE [kind |-> "NotClause", _name |-> node, not_shape |-> not_shape]

\* NotClause.parse
NotClauseParse(g, node, stk) ==
    IF node = None THEN NoneV
    ELSE NewNotClause(node, NodeShapeParse(g, node, stk))

\* QualifiedValueShape(node, qualifiedValueShape=NodeShape.parse(graph, node))
NewQualifiedValueShape(node, inner) ==
    IF IsRaise(inner) THEN inner
    ELSE [kind |-> "QualifiedValueShape", _name |-> node,
          qualifiedValueShape |-> inner,
          qualifiedMinCount |-> None, qualifiedMaxCount |-> None]

\* QualifiedValueShape.parse
QualifiedValueShapeParse(g, node, stk) ==
    IF node = None THEN NoneV
    ELSE NewQualifiedValueShape(node, NodeShapeParse(g, node, stk))

\* NodeShape(node, target=..., hasClass=..., ...) of the parsed parts.
NewNodeShape(g, node, target, matchesNode, ors, nots, props) ==
    IF FirstRaise(<<target, matchesNode>> \o ors \o nots \o props) # None
        THEN Raise(FirstRaise(<<target, matchesNode>> \o ors \o nots \o props))
    ELSE [kind |-> "NodeShape", _name |-> node,
          target |-> target,
          hasClass |-> Value(g, node, SH_class),
          matchesNode |-> matchesNode,
          closed |-> IF Value(g, node, SH_closed) = None THEN "False"
                     ELSE Value(g, node, SH_closed),
          or_clauses |-> drop_none(ors),
          not_clauses |-> drop_none(nots),
          properties |-> drop_none(props)]

\* NodeShape.parse.  Its parts are parsed in the order target, matchesNode,
\* or_clauses, not_clauses, properties; the first exception propagates.
NodeShapeParse(g, node, stk) ==
    IF node = None THEN NoneV
    ELSE IF <<"NodeShape", node>> \in stk THEN Raise("RecursionError")
    ELSE
    LET in == stk \cup {<<"NodeShape", node>>}
        ocs == SetToSeq(Objects(g, node, SH_or))
        ncs == SetToSeq(Objects(g, node, SH_not))
    IN  NewNodeShape(g, node,
            NodeShapeTargetParse(g, node, in),
            NodeShapeParse(g, Value(g, node, SH_node), in),
            [i \in 1..Len(ocs) |-> OrClauseParse(g, ocs[i], in)],
            [i \in 1..Len(ncs) |-> NotClauseParse(g, ncs[i], in)],
            PropertyShapeParseAll(
                g, SetToSeq(Objects(g, node, SH_property)), in))

\* PropertyShape(node, path=path, minCount=..., ...) of the parsed parts.
NewPropertyShape(g, node, path, matchesNode, qvs) ==
    IF IsRaise(path) THEN path
    ELSE IF IsNone(path) THEN Raise("AssertionError")
    ELSE IF IsRaise(matchesNode) THEN matchesNode
    ELSE IF IsRaise(qvs) THEN qvs
    ELSE [kind |-> "PropertyShape", _name |-> node,
          path |-> path,
          minCount |-> Value(g, node, SH_minCount),
          maxCount |-> Value(g, node, SH_maxCount),
          hasValue |-> Value(g, node, SH_hasValue),
          hasClass |-> Value(g, node, SH_class),
          hasDatatype |-> Value(g, node, SH_datatype),
          hasNodeKind |-> Value(g, node, SH_nodeKind),
          matchesNode |-> matchesNode,
          qualifiedValueShape |->
              IF IsNone(qvs) THEN qvs
              ELSE [qvs EXCEPT
                      !.qualifiedMinCount = Value(g, node, SH_qualifiedMinCount),
                      !.qualifiedMaxCount = Value(g, node, SH_qualifiedMaxCount)]]

\* PropertyShape.parse: the path is required (assert path is not None).
PropertyShapeParse(g, node, stk) ==
    IF node = None THEN NoneV
    ELSE IF <<"PropertyShape", node>> \in stk THEN Raise("RecursionError")
    ELSE
    LET in == stk \cup {<<"PropertyShape", node>>}
    IN  NewPropertyShape(g, node,
            PathParse(g, Value(g, node, SH_path), in),
            NodeShapeParse(g, Value(g, node, SH_node), in),
            QualifiedValueShapeParse(
                g, Value(g, node, SH_qualifiedValueShape), in))

----------------------------------------------------------------------------
(* shapgebra.py: ShapeGraph and the dependency queries                      *)

\* graph.objects(predicate=p): one object per statement with that predicate.
ObjectsSeq(g, p) ==
    LET ts == SetToSeq({u \in g : u[2] = p})
    IN [i \in 1..Len(ts) |-> ts[i][3]]

\* self.nodes = drop_none(self.nodes), unless a parse raised.
NewShapeGraphOf(nodes) ==
    IF FirstRaise(nodes) # None THEN Raise(FirstRaise(nodes))
    ELSE [kind |-> "ShapeGraph", nodes |-> drop_none(nodes)]

\* ShapeGraph.__init__ without the loop over the objects of sh:node.
ShapeGraphInitNoNodeObjects(g) ==
    NewShapeGraphOf(
        NodeShapeParseAll(g, SetToSeq(Subjects(g, RDF_type, SH_NodeShape)), {})
        \o PropertyShapeParseAll(
               g, SetToSeq(Subjects(g, RDF_type, SH_PropertyShape)), {})
        \o PropertyShapeParseAll(g, ObjectsSeq(g, SH_property), {}))

\* ShapeGraph.__init__: the four loops, each parse appended to nodes; an
\* exception of a parse leaves the constructor.
ShapeGraphInit(g) ==
    NewShapeGraphOf(
        NodeShapeParseAll(g, SetToSeq(Subjects(g, RDF_type, SH_NodeShape)), {})
        \o PropertyShapeParseAll(
               g, SetToSeq(Subjects(g, RDF_type, SH_PropertyShape)), {})
        \o NodeShapeParseAll(g, ObjectsSeq(g, SH_node), {})
        \o PropertyShapeParseAll(g, ObjectsSeq(g, SH_property), {}))

\* The ASK query of SHACLNode.dependencies.  The node is written <{node}>,
\* an IRI: for a blank node that IRI is no node of the graph and nothing
\* matches.
AskShape(g, node) ==
    /\ ~IsBNode(node)
    /\ \/ <<node, RDF_type, SH_NodeShape>> \in g
       \/ <<node, RDF_type, SH_PropertyShape>> \in g
       \/ \E t \in g : t[2] \in {SH_node, SH_property} /\ t[3] = node

\* The while loop of SHACLNode.dependencies over the deque.
RECURSIVE DependenciesLoop(_, _, _)
DependenciesLoop(g, stack, found) ==
    IF Len(stack) = 0 THEN found
    ELSE LET node == stack[Len(stack)]
             rest == SubSeq(stack, 1, Len(stack) - 1)
         IN IF node \in found THEN DependenciesLoop(g, rest, found)
            ELSE DependenciesLoop(
                     g, rest \o SetToSeq(AllNodes(CBD(g, node))),
                     found \cup {node})

\* SHACLNode.dependencies
NodeDependencies(g, name, recursive) ==
    LET found == {n \in AllNodes(CBD(g, name)) : AskShape(g, n)}
    IN IF recursive THEN DependenciesLoop(g, SetToSeq(found), found)
       ELSE found

\* ShapeGraph.__getitem__
GetItem(s, key) ==
    LET hits == SelectSeq(s.nodes, LAMBDA n : n._name = key)
    IN IF hits = <<>> THEN Raise("KeyError") ELSE hits[1]

\* ShapeGraph.dependencies
Dependencies(s, g, node, recursive) ==
    LET n == GetItem(s, node)
    IN IF IsRaise(n) THEN n
       ELSE Returned(NodeDependencies(g, n._name, recursive))

\* ShapeGraph.dependents with the membership test turned around.
DependentsReversed(s, g, node, recursive) ==
    Returned({s.nodes[i]._name : i \in
                {j \in 1..Len(s.nodes) :
                    /\ s.nodes[j]._name # node
                    /\ s.nodes[j]._name \in NodeDependencies(g, node,
                                                             recursive)}})

\* ShapeGraph.dependents
Dependents(s, g, node, recursive) ==
    Returned({s.nodes[i]._name : i \in
                {j \in 1..Len(s.nodes) :
                    /\ s.nodes[j]._name # node
                    /\ node \in NodeDependencies(g, s.nodes[j]._name,
                                                 recursive)}})

----------------------------------------------------------------------------
(* shape2template.py: gensym, PathSet and the helpers                       *)

MARK == "urn:___mark___#"

\* Largest number of gensym calls of one run.
MaxDraws == 24

\* gensym without its random suffix: MARK[f"{prefix}_"].
gensym_no_token(prefix, tok) == MARK \o prefix \o "_"

\* gensym(prefix) with token_hex(8) = tok.
gensym(prefix, tok) == MARK \o prefix \o "_" \o ToString(tok)

GensymPrefixes == {"param", "autogen", "shape_list", "prop_shape"}

\* str(node).startswith(MARK)
StartsWithMark(n) ==
    \E prefix \in GensymPrefixes, tok \in 1..MaxDraws : n = gensym(prefix, tok)

\* node.replace(MARK, "")
WithoutMark(n) ==
    LET c == CHOOSE c \in GensymPrefixes \X (1..MaxDraws) : n = gensym(c[1], c[2])
    IN c[1] \o "_" \o ToString(c[2])

\* The synthesis state a call reads and writes: self.templates and the
\* identifiers gensym has made so far.  token_hex(8) draws 64 random bits;
\* the n-th draw of a run is the token n, so draws never repeat.
NextToken(st) == Len(st.made) + 1

\* name = gensym(prefix), recorded in the state.
Made(st, prefix) == [st EXCEPT !.made = Append(@, gensym(prefix, NextToken(st)))]

\* What a call of the synthesis returned or raised, with the state it left.
Ok(val, st) == [kind |-> "Return", val |-> val, st |-> st, exc |-> None]

Fail(exc, st) == [kind |-> "Raise", val |-> <<>>, st |-> st, exc |-> exc]

\* A statement "<s> p <o> .\n" of a template body; a template is the
\* sequence of its statements, "" the empty sequence.
Statement(s, p, o) == <<s, p, o>>

\* _add_to_list
_add_to_list(list_, suffix) == [i \in 1..Len(list_) |-> list_[i] \o suffix]

\* A pairing of two lists: [f"{a}{b}" for a, b in zip(list_a, list_b)].
_cross_product_zip(list_a, list_b) ==
    LET n == IF Len(list_a) < Len(list_b) THEN Len(list_a) ELSE Len(list_b)
    IN [k \in 1..n |-> list_a[k] \o list_b[k]]

\* _cross_product
_cross_product(list_a, list_b) ==
    [k \in 1..(Len(list_a) * Len(list_b)) |->
        list_a[((k - 1) \div Len(list_b)) + 1]
            \o list_b[((k - 1) % Len(list_b)) + 1]]

\* Context.add_template on the defaultdict
add_template(templates, name, template) ==
    IF name \in DOMAIN templates
        THEN [templates EXCEPT ![name] = Append(@, template)]
    ELSE [n \in DOMAIN templates \cup {name} |->
             IF n = name THEN <<template>> ELSE templates[n]]

\* self.templates[name] read: a defaultdict creates the missing entry.
Touch(templates, name) ==
    IF name \in DOMAIN templates THEN templates
    ELSE [n \in DOMAIN templates \cup {name} |->
             IF n = name THEN <<>> ELSE templates[n]]

RECURSIVE AddTemplates(_, _, _)
AddTemplates(templates, name, generated) ==
    IF generated = <<>> THEN templates
    ELSE AddTemplates(add_template(templates, name, Head(generated)), name,
                      Tail(generated))

\* PathSet.__init__
NewPathSet == [sequence |-> <<>>, options |-> {}]

\* PathSet.then
RECURSIVE PathSetThen(_, _)
PathSetThen(ps, path) ==
    IF Cardinality(ps.options) > 0
        THEN [sequence |-> <<>>,
              options |-> {PathSetThen(o, path) : o \in ps.options}]
    ELSE [ps EXCEPT !.sequence = Append(@, path)]

\* The loop of PathSet.paths without "last = gensym(...)" taking effect for
\* the next step: every statement starts at the start node.
RECURSIVE PathsLoopNoAdvance(_, _, _, _)
PathsLoopNoAdvance(steps, last, temp, st) ==
    IF steps = <<>> THEN Ok(<<temp, last>>, st)
    ELSE PathsLoopNoAdvance(Tail(steps), last,
             Append(temp, Statement(last, Head(steps),
                                    gensym("autogen", NextToken(st)))),
             Made(st, "autogen"))

\* The loop of PathSet.paths: one statement and one gensym per step.
RECURSIVE PathsLoop(_, _, _, _)
PathsLoop(steps, last, temp, st) ==
    IF steps = <<>> THEN Ok(<<temp, last>>, st)
    ELSE LET new == gensym("autogen", NextToken(st))
         IN PathsLoop(Tail(steps), new,
                      Append(temp, Statement(last, Head(steps), new)),
                      Made(st, "autogen"))

\* path.paths(start)[0]: the pair (statements, last placeholder).  With
\* options, paths returns an itertools.chain, which has no [0].
PathSetPaths(ps, start, st) ==
    IF Cardinality(ps.options) > 0 THEN Fail("TypeError", st)
    ELSE PathsLoop(ps.sequence, start, <<>>, st)

\* Context._path_to_template.  stk holds the path nodes on the Python stack.
RECURSIVE _path_to_template(_, _, _, _)
RECURSIVE PathParts(_, _, _, _)
_path_to_template(g, path, ps, stk) ==
    IF path \in stk THEN Raise("RecursionError")
    ELSE
    LET sub == CBD(g, path)
        in == stk \cup {path}
        zeroOrMore == Value(sub, path, SH_zeroOrMorePath)
        oneOrMore == Value(sub, path, SH_oneOrMorePath)
        zeroOrOne == Value(sub, path, SH_zeroOrOnePath)
        alternative == Value(sub, path, SH_alternativePath)
    IN  IF Cardinality(sub) = 0 THEN Returned(PathSetThen(ps, path))
        ELSE IF \E t \in sub : Match(t[1], path) /\ t[2] = RDF_first
            THEN PathParts(g, Collection(sub, path), ps, in)
        ELSE IF zeroOrMore # None THEN _path_to_template(g, zeroOrMore, ps, in)
        ELSE IF oneOrMore # None THEN _path_to_template(g, oneOrMore, ps, in)
        ELSE IF zeroOrOne # None THEN _path_to_template(g, zeroOrOne, ps, in)
        ELSE IF alternative # None
            THEN PathParts(g, Collection(sub, alternative), ps, in)
        ELSE Returned(ps)

\* for part in parts: ps = self._path_to_template(part, ps)
PathParts(g, parts, ps, stk) ==
    IF parts = <<>> THEN Returned(ps)
    ELSE LET r == _path_to_template(g, Head(parts), ps, stk)
         IN IF IsRaise(r) THEN r ELSE PathParts(g, Tail(parts), r.val, stk)

\* for suffix in suffixes: list_ = _add_to_list(list_, suffix)
RECURSIVE AddEach(_, _)
AddEach(list_, suffixes) ==
    IF suffixes = <<>> THEN list_
    ELSE AddEach(_add_to_list(list_, Head(suffixes)), Tail(suffixes))

\* for _type in _types:
\*     generated_shapes = _cross_product(generated_shapes, self.templates[_type])
RECURSIVE CrossTypes(_, _, _)
CrossTypes(generated_shapes, _types, st) ==
    IF _types = <<>> THEN Ok(generated_shapes, st)
    ELSE LET templates == Touch(st.templates, Head(_types))
         IN CrossTypes(_cross_product(generated_shapes, templates[Head(_types)]),
                       Tail(_types), [st EXCEPT !.templates = templates])

\* The synthesis proper.  stk holds the (function, node) calls on the Python
\* stack: a call that is already there never returns, and the interpreter
\* raises RecursionError.  A function whose later statements use the result
\* of a call is split at that call: the operator named after the function
\* makes the call and hands its result to the operator of the next part.
RECURSIVE generate_template(_, _, _, _)
RECURSIVE GenerateProperties(_, _, _, _, _)
RECURSIVE _handle_node_shape_list(_, _, _, _, _)
RECURSIVE _prop_shape_to_template(_, _, _, _, _)
RECURSIVE PropShapePaths(_, _, _, _, _, _)
RECURSIVE PropShapeTyped(_, _, _, _, _)
RECURSIVE HandleItems(_, _, _, _, _, _)
RECURSIVE HandleGenerated(_, _, _, _, _, _)
RECURSIVE HandleLists(_, _, _, _, _, _)
RECURSIVE HandleNext(_, _, _, _, _)
RECURSIVE AddProperties(_, _, _, _, _, _)
RECURSIVE AddProperty(_, _, _, _, _, _)

\* generated_shapes = _add_to_list(generated_shapes,
\*                                 f"<{last}> rdf:type <{type_}> .\n")
Typed(generated_shapes, last, type_) ==
    _add_to_list(generated_shapes, <<Statement(last, RDF_type, type_)>>)

\* Context._prop_shape_to_template, lines 222-226: the generated shapes.
_prop_shape_to_template(g, st, root_param, prop_shape, stk) ==
    IF <<"_prop_shape_to_template", prop_shape>> \in stk
        THEN Fail("RecursionError", st)
    ELSE PropShapePaths(g, st, root_param, prop_shape,
             stk \cup {<<"_prop_shape_to_template", prop_shape>>},
             _path_to_template(g,
                 Value(CBD(g, prop_shape), prop_shape, SH_path), NewPathSet, {}))

\* Lines 229-232, with path the PathSet of line 226.
PropShapePaths(g, st, root_param, prop_shape, stk, path) ==
    IF IsRaise(path) THEN Fail(path.exc, st)
    ELSE PropShapeTyped(g, prop_shape, stk,
                        PathSetPaths(path.val, root_param, st),
                        CBD(g, prop_shape))

\* for type_ in types_: generated_shapes = _add_to_list(...)
PropShapeTypes(generated_shapes, last, types_) ==
    IF types_.kind = "Raise" THEN types_
    ELSE Ok(AddEach(generated_shapes,
                    [i \in 1..Len(types_.val) |->
                        <<Statement(last, RDF_type, types_.val[i])>>]),
            types_.st)

\* Lines 230-251, with path_templates what path.paths(root_param)[0] gave.
PropShapeTyped(g, prop_shape, stk, path_templates, pg) ==
    IF path_templates.kind = "Raise" THEN path_templates
    ELSE IF SH_class \in Predicates(pg, prop_shape)
        THEN Ok(Typed(_add_to_list(<< <<>> >>, path_templates.val[1]),
                      path_templates.val[2], Value(pg, prop_shape, SH_class)),
                path_templates.st)
    ELSE IF SH_qualifiedValueShape \in Predicates(pg, prop_shape)
        THEN IF Value(pg, Value(pg, prop_shape, SH_qualifiedValueShape),
                      SH_class) # None
                 THEN Ok(Typed(_add_to_list(<< <<>> >>, path_templates.val[1]),
                               path_templates.val[2],
                               Value(pg, Value(pg, prop_shape,
                                               SH_qualifiedValueShape),
                                     SH_class)),
                         path_templates.st)
             ELSE IF Value(pg, Value(pg, prop_shape, SH_qualifiedValueShape),
                           SH_node) # None
                 THEN Ok(Typed(_add_to_list(<< <<>> >>, path_templates.val[1]),
                               path_templates.val[2],
                               Value(pg, Value(pg, prop_shape,
                                               SH_qualifiedValueShape),
                                     SH_node)),
                         path_templates.st)
             ELSE PropShapeTypes(
                      _add_to_list(<< <<>> >>, path_templates.val[1]),
                      path_templates.val[2],
                      _handle_node_shape_list(g, path_templates.st,
                          Value(pg, prop_shape, SH_qualifiedValueShape), None,
                          stk))
    ELSE Ok(_add_to_list(<< <<>> >>, path_templates.val[1]), path_templates.st)

\* The items of one list of Context._handle_node_shape_list (lines 263-276);
\* returns root.
HandleItems(g, st, items, root, name, stk) ==
    IF items = <<>> THEN Ok(root, st)
    ELSE IF <<Head(items), RDF_type, SH_NodeShape>> \in g
        THEN HandleGenerated(g, Tail(items), root, name, stk,
                             generate_template(g, st, Head(items), stk))
    ELSE IF <<Head(items), RDF_type, SH_PropertyShape>> \in g
        THEN IF root = None
                 THEN HandleGenerated(g, Tail(items),
                          gensym("prop_shape", NextToken(st)), name, stk,
                          _prop_shape_to_template(g, Made(st, "prop_shape"),
                              gensym("prop_shape", NextToken(st)), Head(items),
                              stk))
             ELSE HandleGenerated(g, Tail(items), root, name, stk,
                      _prop_shape_to_template(g, st, root, Head(items), stk))
    ELSE HandleItems(g, st, Tail(items), root, name, stk)

\* for generated in ...: self.add_template(name, generated), then the items
\* that are left.
HandleGenerated(g, items, root, name, stk, generated) ==
    IF generated.kind = "Raise" THEN generated
    ELSE HandleItems(g,
             [generated.st EXCEPT
                 !.templates = AddTemplates(@, name, generated.val)],
             items, root, name, stk)

\* for list_ in lists: name = gensym("shape_list"); templates.append(name); ...
HandleLists(g, st, lists, root, templates, stk) ==
    IF lists = <<>> THEN Ok(templates, st)
    ELSE HandleNext(g, Tail(lists),
             Append(templates, gensym("shape_list", NextToken(st))), stk,
             HandleItems(g, Made(st, "shape_list"), Head(lists), root,
                         gensym("shape_list", NextToken(st)), stk))

\* The lists that are left, after the items of one.
HandleNext(g, lists, templates, stk, items) ==
    IF items.kind = "Raise" THEN items
    ELSE HandleLists(g, items.st, lists, items.val, templates, stk)

\* _handle_node_shape_list that iterates the shape itself in the place of
\* the members of each of its lists.
_handle_node_shape_list_self(g, st, shape, root, stk) ==
    HandleLists(g, st,
        [i \in 1..Cardinality(Objects(g, shape, SH_or)) |-> <<shape>>],
        root, <<>>, stk)

\* Context._handle_node_shape_list: the template names, one per list.
_handle_node_shape_list(g, st, shape, root, stk) ==
    HandleLists(g, st,
        [i \in 1..Cardinality(Objects(g, shape, SH_or)) |->
            Collection(g, SetToSeq(Objects(g, shape, SH_or))[i])],
        root, <<>>, stk)

\* for prop_shape in g.objects(subject=shape, predicate=SH.property): ...
AddProperties(g, st, prop_shapes, parameters, generated_shapes, stk) ==
    IF prop_shapes = <<>> THEN Ok(generated_shapes, st)
    ELSE IF Len(parameters) = 0 THEN Fail("IndexError", st)
    ELSE AddProperty(g, Tail(prop_shapes), parameters, generated_shapes, stk,
             _prop_shape_to_template(g, st, parameters[1], Head(prop_shapes),
                                     stk))

\* for prop_template in generated_prop_shapes: ..., then the property shapes
\* that are left.
AddProperty(g, prop_shapes, parameters, generated_shapes, stk, generated) ==
    IF generated.kind = "Raise" THEN generated
    ELSE AddProperties(g, generated.st, prop_shapes, parameters,
                       AddEach(generated_shapes, generated.val), stk)

\* The first of sh:targetClass, sh:targetNode and sh:class the shape has.
TypeProp(g, shape) ==
    IF SH_targetClass \in Predicates(CBD(g, shape), shape) THEN SH_targetClass
    ELSE IF SH_targetNode \in Predicates(CBD(g, shape), shape)
        THEN SH_targetNode
    ELSE IF SH_class \in Predicates(CBD(g, shape), shape) THEN SH_class
    ELSE None

\* Lines 168-172 of generate_template, with _types what
\* _handle_node_shape_list gave.
GenerateOrs(generated_shapes, _types) ==
    IF _types.kind = "Raise" THEN _types
    ELSE CrossTypes(generated_shapes, _types.val, _types.st)

\* Lines 174-181 of generate_template.
GenerateProperties(g, shape, stk, parameters, crossed) ==
    IF crossed.kind = "Raise" THEN crossed
    ELSE AddProperties(g, crossed.st,
                       SetToSeq(Objects(CBD(g, shape), shape, SH_property)),
                       parameters, crossed.val, stk)

\* Context.generate_template: the list of generated shapes.
generate_template(g, st, shape, stk) ==
    IF <<"generate_template", shape>> \in stk THEN Fail("RecursionError", st)
    ELSE GenerateProperties(g, shape,
             stk \cup {<<"generate_template", shape>>},
             IF TypeProp(g, shape) = None THEN <<>>
             ELSE <<gensym("param", NextToken(st))>>,
             GenerateOrs(
                 IF TypeProp(g, shape) = None THEN << <<>> >>
                 ELSE Typed(<< <<>> >>, gensym("param", NextToken(st)),
                            Value(CBD(g, shape), shape, TypeProp(g, shape))),
                 IF SH_or \in Predicates(CBD(g, shape), shape)
                     THEN _handle_node_shape_list(g, Made(st, "param"), shape,
                              gensym("param", NextToken(st)),
                              stk \cup {<<"generate_template", shape>>})
                 ELSE Ok(<<>>, Made(st, "param"))))

\* Context.shapes: the rows of the SELECT, those of the first branch of the
\* UNION and then those of the second, each asserted to be a URIRef.
Orders(S) ==
    {q \in [1..Cardinality(S) -> S] : \A i, j \in DOMAIN q : i # j => q[i] # q[j]}

ShapeRows(g) ==
    {a \o b : a \in Orders(Subjects(g, RDF_type, SH_NodeShape)),
              b \in Orders(Subjects(g, RDF_type, SH_PropertyShape))}

shapes(rows) ==
    IF \E i \in DOMAIN rows : IsBNode(rows[i]) THEN Raise("AssertionError")
    ELSE Returned(rows)

\* Context.root_shapes
root_shapes(g, all) ==
    LET dependents(s) ==
            SelectSeq(all, LAMBDA other : s \in AllNodes(CBD(g, other)))
    IN SelectSeq(all, LAMBDA s : Len(dependents(s)) = 1)

\* The statements of all templates of the context.
TemplateStatements(templates) ==
    UNION {UNION {{templates[n][k][i] : i \in DOMAIN templates[n][k]} :
                     k \in DOMAIN templates[n]} : n \in DOMAIN templates}

\* to_dict with the templates parsed into self.g instead of a graph of
\* their own: self.g.parse(data=__header__ + template, format="turtle").
GraphAfterToDictShared(g, templates) == g \cup TemplateStatements(templates)

\* self.g after to_dict: every template is parsed into tg, a new
\* rdflib.Graph (line 135), and self.g is not written.
GraphAfterToDict(g, templates) == g

\* Context.to_dict
to_dict(templates) ==
    [name \in {n \in DOMAIN templates : Len(templates[n]) > 0} |->
        LET template == templates[name][Len(templates[name])]
            nodes == {template[i][1] : i \in DOMAIN template}
                         \cup {template[i][3] : i \in DOMAIN template}
            params == {n \in nodes : StartsWithMark(n)}
            slot(n) == IF n \in params THEN "{" \o WithoutMark(n) \o "}" ELSE n
        IN [body |-> [i \in DOMAIN template |->
                         <<slot(template[i][1]), slot(template[i][2]),
                           slot(template[i][3])>>],
            params |-> {WithoutMark(n) : n \in params}]]

----------------------------------------------------------------------------
(* Path expressions and their SHACL encoding: the inputs of Path.parse      *)

Predicates2 == {"ex:p", "ex:q"}

Pred(id) == [op |-> "pred", id |-> id]

Unary(op, kid) == [op |-> op, kid |-> kid]

Nary(op, kids) == [op |-> op, kids |-> kids]

UnaryOps == {"inverse", "zeroOrOne", "oneOrMore", "zeroOrMore"}

\* Path expressions of depth at most d; a sequence or an alternative has two
\* members, the second one atomic.
RECURSIVE PathExprs(_)
PathExprs(d) ==
    IF d = 0 THEN {Pred(id) : id \in Predicates2}
    ELSE LET E == PathExprs(d - 1)
         IN E \cup {Unary(op, x) : op \in UnaryOps, x \in E}
              \cup {Nary(op, <<x, Pred(id)>>) :
                        op \in {"sequence", "alternative"}, x \in E,
                        id \in Predicates2}

\* The node that stands for expression x at position pos.
ExprNode(x, pos) == IF x.op = "pred" THEN x.id ELSE PathBNode(pos)

UnaryPredicate(op) ==
    CASE op = "inverse" -> SH_inversePath
      [] op = "zeroOrOne" -> SH_zeroOrOnePath
      [] op = "oneOrMore" -> SH_oneOrMorePath
      [] op = "zeroOrMore" -> SH_zeroOrMorePath

\* The statements of the two-member RDF list head -> (a b).
ListTriples(head, cell2, a, b) ==
    {<<head, RDF_first, a>>, <<head, RDF_rest, cell2>>,
     <<cell2, RDF_first, b>>, <<cell2, RDF_rest, RDF_nil>>}

\* The SHACL statements of expression x at position pos: a sequence is the
\* RDF list itself, an alternative a blank node whose sh:alternativePath is
\* an RDF list, the others a blank node with the operator's predicate.
RECURSIVE Encode(_, _)
Encode(x, pos) ==
    IF x.op = "pred" THEN {}
    ELSE IF x.op \in UnaryOps
        THEN {<<PathBNode(pos), UnaryPredicate(x.op),
                ExprNode(x.kid, Append(pos, 1))>>}
             \cup Encode(x.kid, Append(pos, 1))
    ELSE LET a == ExprNode(x.kids[1], Append(pos, 1))
             b == ExprNode(x.kids[2], Append(pos, 2))
             sub == Encode(x.kids[1], Append(pos, 1))
                      \cup Encode(x.kids[2], Append(pos, 2))
         IN IF x.op = "sequence"
                THEN ListTriples(PathBNode(pos), PathCell(pos, 2), a, b) \cup sub
            ELSE {<<PathBNode(pos), SH_alternativePath, PathCell(pos, 1)>>}
                   \cup ListTriples(PathCell(pos, 1), PathCell(pos, 2), a, b)
                   \cup sub

\* The canonical string of an expression.
RECURSIVE CanonicalString(_)
CanonicalString(x) ==
    CASE x.op = "pred" -> x.id
      [] x.op = "sequence" ->
            CanonicalString(x.kids[1]) \o "/" \o CanonicalString(x.kids[2])
      [] x.op = "alternative" ->
            CanonicalString(x.kids[1]) \o "|" \o CanonicalString(x.kids[2])
      [] x.op = "inverse" -> CanonicalString(x.kid) \o "^"
      [] x.op = "zeroOrOne" -> CanonicalString(x.kid) \o "?"
      [] x.op = "oneOrMore" -> CanonicalString(x.kid) \o "+"
      [] x.op = "zeroOrMore" -> CanonicalString(x.kid) \o "*"

----------------------------------------------------------------------------
(* The path specification: Path.parse, then rollup, on an encoded path      *)

NoSG == [kind |-> "None"]

NoCtx == [kind |-> "None"]

NoRes == [kind |-> "None"]

InitPath ==
    /\ pc = "start"
    /\ sg = NoSG
    /\ ctx = NoCtx
    /\ res = NoRes
    /\ \/ \E x \in PathExprs(MaxPathDepth) :
             /\ graph = Encode(x, <<>>)
             /\ out = [kind |-> "PathInput", expr |-> x,
                       node |-> ExprNode(x, <<>>)]
       \/ /\ graph = {}
          /\ out = [kind |-> "PathInput", expr |-> Pred(None), node |-> None]

\* p = Path.parse(graph, node)
CallPathParse ==
    /\ pc = "start"
    /\ out.kind = "PathInput"
    /\ out' = [kind |-> "PathParsed", expr |-> out.expr, node |-> out.node,
               path |-> PathParse(graph, out.node, {})]
    /\ pc' = "parsed"
    /\ UNCHANGED <<graph, sg, ctx, res>>

\* p.rollup(), on the Path that parse returned
CallPathRollup ==
    /\ pc = "parsed"
    /\ out.path.kind = "Path"
    /\ out' = [kind |-> "PathRolled", expr |-> out.expr, node |-> out.node,
               path |-> out.path, rolled |-> PathRollup(out.path)]
    /\ pc' = "rolled"
    /\ UNCHANGED <<graph, sg, ctx, res>>

NextPath == CallPathParse \/ CallPathRollup

SpecPath == InitPath /\ [][NextPath]_vars

----------------------------------------------------------------------------
(* The dependency specification: a ShapeGraph over a document, queried     *)

\* Statements the documents of the dependency specification are drawn from:
\* named shapes A, B, C, a blank property shape b1 of A, an untyped node D
\* that is only referenced, and a reference cycle C -> A.
DepTriples ==
    {<<"ex:A", RDF_type, SH_NodeShape>>,
     <<"ex:B", RDF_type, SH_NodeShape>>,
     <<"ex:C", RDF_type, SH_NodeShape>>,
     <<"ex:A", SH_node, "ex:B">>,
     <<"ex:B", SH_node, "ex:C">>,
     <<"ex:C", SH_node, "ex:A">>,
     <<"ex:A", SH_property, "_:b1">>,
     <<"_:b1", SH_path, "ex:p">>,
     <<"_:b1", SH_node, "ex:C">>,
     <<"_:b1", RDF_type, SH_PropertyShape>>,
     <<"ex:C", SH_class, "ex:K">>,
     <<"ex:B", SH_node, "ex:D">>}

\* Largest number of statements in a document of the dependency specification.
MaxDepTriples == 5

\* Identifiers the queries are made with: the nodes above and ex:U, which no
\* document mentions.
QueryIds == {"ex:A", "ex:B", "ex:C", "ex:D", "_:b1", "ex:K", "ex:U"}

InitDep ==
    /\ graph \in {d \in SUBSET DepTriples : Cardinality(d) <= MaxDepTriples}
    /\ pc = "start"
    /\ sg = NoSG
    /\ out = [kind |-> "None"]
    /\ ctx = NoCtx
    /\ res = NoRes

\* sg = ShapeGraph(graph)
NewShapeGraph ==
    /\ pc = "start"
    /\ sg' = ShapeGraphInit(graph)
    /\ pc' = IF IsRaise(sg') THEN "raised" ELSE "indexed"
    /\ UNCHANGED <<graph, out, ctx, res>>

\* sg.dependencies(node, recursive)
CallDependencies ==
    /\ pc = "indexed"
    /\ \E node \in QueryIds, recursive \in BOOLEAN :
          out' = [kind |-> "dependencies", node |-> node,
                  recursive |-> recursive,
                  result |-> Dependencies(sg, graph, node, recursive)]
    /\ pc' = "queried"
    /\ UNCHANGED <<graph, sg, ctx, res>>

\* sg.dependents(node, recursive)
CallDependents ==
    /\ pc = "indexed"
    /\ \E node \in QueryIds, recursive \in BOOLEAN :
          out' = [kind |-> "dependents", node |-> node,
                  recursive |-> recursive,
                  result |-> Dependents(sg, graph, node, recursive)]
    /\ pc' = "queried"
    /\ UNCHANGED <<graph, sg, ctx, res>>

NextDep == NewShapeGraph \/ CallDependencies \/ CallDependents

SpecDep == InitDep /\ [][NextDep]_vars

----------------------------------------------------------------------------
(* The synthesis specification: a Context over a document, its templates    *)
(* generated root by root, then generate_template and to_dict called on it  *)

\* The statements a document is assembled from.  ex:R and ex:S are shapes of
\* their own, ex:A and ex:B the alternatives of ex:R's OR-clauses, and
\* ex:T a node that only carries property shapes.
List3(head, cell2, cell3, a, b, c) ==
    {<<head, RDF_first, a>>, <<head, RDF_rest, cell2>>,
     <<cell2, RDF_first, b>>, <<cell2, RDF_rest, cell3>>,
     <<cell3, RDF_first, c>>, <<cell3, RDF_rest, RDF_nil>>}

Fragments ==
    << {<<"ex:R", RDF_type, SH_NodeShape>>},
       {<<"ex:R", SH_targetClass, "ex:X">>},
       {<<"ex:R", SH_or, "_:l1">>}
           \cup ListTriples("_:l1", "_:l1r", "ex:A", "ex:B"),
       {<<"ex:R", SH_or, "_:l2">>}
           \cup List3("_:l2", "_:l2r", "_:l2s", "ex:B", "ex:A", "ex:A"),
       {<<"ex:A", RDF_type, SH_NodeShape>>, <<"ex:A", SH_targetClass, "ex:CA">>,
        <<"ex:B", RDF_type, SH_NodeShape>>, <<"ex:B", SH_targetClass, "ex:CB">>},
       {<<"ex:R", SH_property, "_:b1">>, <<"_:b1", SH_path, "ex:p">>,
        <<"_:b1", SH_class, "ex:K">>},
       {<<"ex:S", RDF_type, SH_NodeShape>>},
       {<<"ex:S", SH_targetClass, "ex:Y">>},
       {<<"ex:S", SH_property, "_:b2">>, <<"_:b2", SH_path, "_:q1">>,
        <<"_:b2", SH_class, "ex:L">>}
           \cup ListTriples("_:q1", "_:q2", "ex:p", "ex:q"),
       {<<"ex:S", RDF_type, SH_PropertyShape>>},
       {<<"_:b1", RDF_type, SH_PropertyShape>>},
       {<<"ex:R", SH_property, "_:b3">>, <<"_:b3", SH_path, "_:x3">>,
        <<"_:x3", SH_inversePath, "ex:p">>, <<"_:b3", SH_class, "ex:K">>},
       {<<"ex:T", SH_property, "_:b4">>, <<"_:b4", SH_path, "_:x4">>,
        <<"_:x4", SH_zeroOrOnePath, "ex:p">>,
        <<"ex:T", SH_property, "_:b5">>, <<"_:b5", SH_path, "_:x5">>,
        <<"_:x5", SH_oneOrMorePath, "ex:p">>, <<"_:b5", SH_class, "ex:K">>,
        <<"ex:T", SH_property, "_:b6">>, <<"_:b6", SH_path, "_:x6">>,
        <<"_:x6", SH_zeroOrMorePath, "ex:p">>,
        <<"ex:T", SH_property, "_:b7">>, <<"_:b7", SH_path, "ex:q">>,
        <<"ex:T", SH_property, "_:b8">>, <<"_:b8", SH_path, "_:r1">>}
           \cup ListTriples("_:r1", "_:r2", "ex:q", "ex:p"),
       {<<"ex:R", SH_targetNode, "ex:N">>},
       {<<"ex:R", SH_class, "ex:C2">>} >>

\* Largest number of fragments a document is assembled from.
MaxFragments == 4

Documents ==
    {UNION {Fragments[i] : i \in c} :
        c \in {d \in SUBSET DOMAIN Fragments : Cardinality(d) <= MaxFragments}}

NoTemplates == [n \in {} |-> <<>>]

Init ==
    /\ graph \in Documents
    /\ pc = "start"
    /\ sg = NoSG
    /\ out = [kind |-> "None"]
    /\ ctx = NoCtx
    /\ res = NoRes

\* Context.__init__ up to the evaluation of self.root_shapes, in one of the
\* orders the store may yield the rows in.
NewContext ==
    /\ pc = "start"
    /\ \E rows \in ShapeRows(graph) :
          LET all == shapes(rows)
          IN IF IsRaise(all)
                 THEN /\ ctx' = [kind |-> "Raise", exc |-> all.exc,
                                 root |-> None, root_shapes |-> <<>>,
                                 templates |-> NoTemplates, made |-> <<>>]
                      /\ pc' = "raised"
             ELSE /\ ctx' = [kind |-> "Context", shapes |-> all.val,
                             root_shapes |-> root_shapes(graph, all.val),
                             todo |-> root_shapes(graph, all.val),
                             templates |-> NoTemplates, made |-> <<>>]
                  /\ pc' = IF ctx'.todo = <<>> THEN "constructed" ELSE "roots"
    /\ UNCHANGED <<graph, sg, out, res>>

\* The Context after one turn of the loop of Context.__init__ for root, with
\* generated what generate_template(root) gave.
Generated(c, root, generated) ==
    IF generated.kind = "Raise"
        THEN [kind |-> "Raise", exc |-> generated.exc, root |-> root,
              root_shapes |-> c.root_shapes,
              templates |-> generated.st.templates, made |-> generated.st.made]
    ELSE [c EXCEPT !.templates = AddTemplates(generated.st.templates, root,
                                              generated.val),
                   !.made = generated.st.made,
                   !.todo = Tail(@)]

\* One turn of the loop of Context.__init__; the constructor returns after
\* the last root, and an exception of generate_template leaves it.
GenerateRoot ==
    /\ pc = "roots"
    /\ Len(ctx.made) < MaxDraws
    /\ ctx' = Generated(ctx, Head(ctx.todo),
                  generate_template(graph,
                      [templates |-> ctx.templates, made |-> ctx.made],
                      Head(ctx.todo), {}))
    /\ pc' = IF ctx'.kind = "Raise" THEN "raised"
             ELSE IF ctx'.todo = <<>> THEN "constructed" ELSE "roots"
    /\ UNCHANGED <<graph, sg, out, res>>

\* What a call of generate_template(shape) on the context c leaves: its
\* result, and the context.
Called(c, shape, generated) ==
    [out |-> [kind |-> "generate_template", shape |-> shape,
              first |-> Len(c.made) + 1,
              result |-> [kind |-> generated.kind, val |-> generated.val,
                          exc |-> generated.exc]],
     ctx |-> [c EXCEPT !.templates = generated.st.templates,
                       !.made = generated.st.made]]

\* ctx.generate_template(shape) on the constructed context, for a root shape.
CallGenerateTemplate ==
    /\ pc = "constructed"
    /\ Len(ctx.made) < MaxDraws
    /\ \E i \in DOMAIN ctx.root_shapes :
          LET called == Called(ctx, ctx.root_shapes[i],
                            generate_template(graph,
                                [templates |-> ctx.templates,
                                 made |-> ctx.made],
                                ctx.root_shapes[i], {}))
          IN out' = called.out /\ ctx' = called.ctx
    /\ pc' = "called"
    /\ UNCHANGED <<graph, sg, res>>

\* The property shapes a document declares: the objects of sh:property.
PropertyShapeNodes(g) == {t[3] : t \in {u \in g : u[2] = SH_property}}

\* What a call of _prop_shape_to_template(root_param, prop_shape) on the
\* context c leaves: its result (generated_shapes, parameters), and the
\* context.
CalledProp(c, root_param, prop_shape, generated) ==
    [out |-> [kind |-> "_prop_shape_to_template", shape |-> prop_shape,
              root_param |-> root_param,
              result |-> [kind |-> generated.kind, val |-> generated.val,
                          parameters |-> <<>>, exc |-> generated.exc]],
     ctx |-> [c EXCEPT !.templates = generated.st.templates,
                       !.made = generated.st.made]]

\* ctx._prop_shape_to_template(root_param, prop_shape) on the constructed
\* context, with a fresh parameter as generate_template passes it (lines
\* 157 and 177).
CallPropShapeToTemplate ==
    /\ pc = "constructed"
    /\ Len(ctx.made) < MaxDraws
    /\ \E prop_shape \in PropertyShapeNodes(graph) :
          LET called == CalledProp(ctx, gensym("param", Len(ctx.made) + 1),
                            prop_shape,
                            _prop_shape_to_template(graph,
                                Made([templates |-> ctx.templates,
                                      made |-> ctx.made], "param"),
                                gensym("param", Len(ctx.made) + 1),
                                prop_shape, {}))
          IN out' = called.out /\ ctx' = called.ctx
    /\ pc' = "called"
    /\ UNCHANGED <<graph, sg, res>>

\* ctx.to_dict(): the dictionary, and self.g after it.
CallToDict ==
    /\ pc \in {"constructed", "called"}
    /\ res' = [kind |-> "dict", entries |-> to_dict(ctx.templates)]
    /\ graph' = GraphAfterToDict(graph, ctx.templates)
    /\ pc' = "dumped"
    /\ UNCHANGED <<sg, out, ctx>>

Next ==
    \/ NewContext
    \/ GenerateRoot
    \/ CallGenerateTemplate
    \/ CallPropShapeToTemplate
    \/ CallToDict

Spec == Init /\ [][Next]_vars

----------------------------------------------------------------------------
(* Both programs on one graph: a ShapeGraph and a Context are constructed   *)
(* and called, in any order and any number of times                         *)

\* The statements of the one-member RDF list head -> (a).
List1(head, a) == {<<head, RDF_first, a>>, <<head, RDF_rest, RDF_nil>>}

\* ex:R with ex:A for an alternative and for its sh:node shape; ex:R among
\* its own alternatives (a cyclic reference); ex:A and ex:B, which point at
\* each other with a statement that is no part of a shape (ex:seeAlso).
AllFragments ==
    << {<<"ex:R", RDF_type, SH_NodeShape>>},
       {<<"ex:R", SH_targetClass, "ex:X">>},
       {<<"ex:R", SH_or, "_:l3">>} \cup List1("_:l3", "ex:A"),
       {<<"ex:A", RDF_type, SH_NodeShape>>, <<"ex:A", SH_targetClass, "ex:CA">>},
       {<<"ex:R", SH_or, "_:l4">>} \cup List1("_:l4", "ex:R"),
       {<<"ex:R", SH_property, "_:b1">>, <<"_:b1", SH_path, "ex:p">>,
        <<"_:b1", SH_class, "ex:K">>},
       {<<"ex:R", SH_node, "ex:A">>},
       {<<"ex:B", RDF_type, SH_NodeShape>>,
        <<"ex:A", "ex:seeAlso", "ex:B">>, <<"ex:B", "ex:seeAlso", "ex:A">>} >>

AllDocuments ==
    {UNION {AllFragments[i] : i \in c} : c \in SUBSET DOMAIN AllFragments}

InitAll ==
    /\ graph \in AllDocuments
    /\ pc = "start"
    /\ sg = NoSG
    /\ out = [kind |-> "None"]
    /\ ctx = NoCtx
    /\ res = NoRes

\* The caller is done with what the last call returned and goes on with
\* another operation on the same graph; the objects it has made stay.
Restart ==
    /\ pc \in {"raised", "indexed", "queried", "constructed", "called",
               "dumped"}
    /\ pc' = "start"
    /\ out' = [kind |-> "None"]
    /\ res' = NoRes
    /\ UNCHANGED <<graph, sg, ctx>>

NextAll == NextDep \/ Next \/ Restart

SpecAll == InitAll /\ [][NextAll]_vars

\* A turn of the loop of Context.__init__, seen from outside: the step that
\* leaves a state in which the constructor is at a root.
ConstructorTurn == pc = "roots" /\ pc' \in {"roots", "constructed", "raised"}

\* The constructor of the Context is one sequential loop (lines 80-82): once
\* entered, its next turn is taken.  This is WF_vars(GenerateRoot) written
\* out: GenerateRoot is enabled exactly when its two guards hold, and a
\* GenerateRoot step is the only step of NextAll from such a state.
ConstructorRuns ==
    \/ []<>(~(pc = "roots" /\ Len(ctx.made) < MaxDraws))
    \/ []<><<ConstructorTurn>>_vars

SpecAllFair == SpecAll /\ ConstructorRuns

----------------------------------------------------------------------------
(* Claims about the dependency queries (specification SpecDep)             *)

\* The identifiers a ShapeGraph indexes.
Indexed(s) == {s.nodes[i]._name : i \in 1..Len(s.nodes)}

\* b is in dependencies(a, recursive=True) iff a is in
\* dependents(b, recursive=True).
Symmetric(a, b) ==
    (b \in Dependencies(sg, graph, a, TRUE).val)
        <=> (a \in Dependents(sg, graph, b, TRUE).val)

RECURSIVE DirectClosure(_, _)
DirectClosure(g, found) ==
    LET more == UNION {NodeDependencies(g, d, FALSE) : d \in found}
    IN IF more \subseteq found THEN found
       ELSE DirectClosure(g, found \cup more)

\* C2: dependencies(s, recursive=True) is the transitive closure of the
\* direct relation: with A referencing B and B referencing C, C is in
\* dependencies(A, recursive=True).
C2_RecursiveClosure ==
    (/\ pc = "queried"
     /\ out.kind = "dependencies"
     /\ out.recursive
     /\ out.result.kind = "Return") =>
        out.result.val =
            DirectClosure(graph, NodeDependencies(graph, out.node, FALSE))

\* C7 as stated: a query with an identifier that is not indexed ends in
\* KeyError, for dependencies and for dependents.
C7_UnknownRaises ==
    (pc = "queried" /\ out.node \notin Indexed(sg)) =>
        /\ out.result.kind = "Raise"
        /\ out.result.exc = "KeyError"

\* C7 as amended: with an identifier that is not indexed, dependencies ends
\* in KeyError and dependents returns the empty list.
C7_UnknownDependenciesRaises ==
    (pc = "queried" /\ out.node \notin Indexed(sg)) =>
        IF out.kind = "dependencies"
            THEN out.result.kind = "Raise" /\ out.result.exc = "KeyError"
        ELSE out.result.kind = "Return" /\ out.result.val = {}

\* dependents was called with an identifier the (non-empty) index lacks,
\* one that the document mentions.
C7_Witness ==
    /\ pc = "queried"
    /\ out.kind = "dependents"
    /\ Indexed(sg) # {}
    /\ out.node \notin Indexed(sg)
    /\ out.node \in AllNodes(graph)
    /\ out.result.kind = "Return"

----------------------------------------------------------------------------
(* Claims about Path (specification SpecPath)                              *)

\* C8: Path round-trip.  For every path expression built from atomic
\* predicates, sequences, alternatives, inverse and the three quantifiers,
\* Path.parse followed by rollup() returns the canonical string of the
\* expression.
C8_PathRoundTrip ==
    pc = "rolled" =>
        /\ out.rolled.kind = "Return"
        /\ out.rolled.val = CanonicalString(out.expr)

\* The variant fields of a Path that are populated.
PopulatedVariants(p) ==
    {f \in {"predicatePath"} : p.predicatePath # None}
    \cup {f \in {"sequencePath", "alternativePath"} : Truthy(p[f])}
    \cup {f \in {"inversePath", "zeroOrOnePath", "oneOrMorePath",
                 "zeroOrMorePath"} : ~IsNone(p[f])}

\* The variant the fixed order of checks selects for a path node.
SelectedVariant(g, node) ==
    IF Value(g, node, SH_inversePath) # None THEN "inversePath"
    ELSE IF Value(g, node, SH_zeroOrOnePath) # None THEN "zeroOrOnePath"
    ELSE IF Value(g, node, SH_oneOrMorePath) # None THEN "oneOrMorePath"
    ELSE IF Value(g, node, SH_zeroOrMorePath) # None THEN "zeroOrMorePath"
    ELSE IF Len(Collection(g, node)) > 0 THEN "sequencePath"
    ELSE IF Value(g, node, SH_alternativePath) # None THEN "alternativePath"
    ELSE "predicatePath"

\* The child Paths a sequence or alternative field holds (a str holds none).
ChildPaths(v) == IF v.kind = "List" THEN v.items ELSE <<>>

\* C9: Path.parse on a non-null path node returns a Path with exactly one
\* variant populated, the one the first matching check selects in the order
\* inverse, zeroOrOne, oneOrMore, zeroOrMore, list-sequence, alternative,
\* atomic; a populated Sequence or Alternative has at least one child; and
\* parse returns null only when the path node is null.
C9_ParseOneVariant ==
    pc \in {"parsed", "rolled"} =>
        /\ out.path.kind = "None" => out.node = None
        /\ out.node # None =>
            /\ out.path.kind = "Path"
            /\ PopulatedVariants(out.path) = {SelectedVariant(graph, out.node)}
            /\ \A f \in {"sequencePath", "alternativePath"} :
                  f \in PopulatedVariants(out.path) =>
                      Len(ChildPaths(out.path[f])) >= 1

----------------------------------------------------------------------------
(* Claims about the synthesis Context (specification Spec)                  *)

Range(q) == {q[i] : i \in DOMAIN q}

\* The shapes of a document: the subjects typed sh:NodeShape or
\* sh:PropertyShape.
ShapeSet(g) ==
    Subjects(g, RDF_type, SH_NodeShape) \cup Subjects(g, RDF_type, SH_PropertyShape)

\* The other shapes whose concise bounded description holds s.
Embedders(g, s) == {o \in ShapeSet(g) \ {s} : s \in AllNodes(CBD(g, o))}

\* self.root_shapes was evaluated and returned its list.
RootShapesReturned ==
    ctx.kind = "Context" \/ (ctx.kind = "Raise" /\ ctx.root # None)

\* C3: Root classification.  A shape nested in the concise bounded description
\* of exactly one other shape is never in root_shapes, and a shape that no
\* other shape of the document references is always in root_shapes.
C3_RootClassification ==
    RootShapesReturned =>
        \A s \in ShapeSet(graph) :
            /\ Cardinality(Embedders(graph, s)) = 1
                   => s \notin Range(ctx.root_shapes)
            /\ Embedders(graph, s) = {} => s \in Range(ctx.root_shapes)

\* An alternative that contributes exactly one template to its OR group: a
\* node shape without an OR-clause of its own.
ContributesOne(g, item) ==
    /\ <<item, RDF_type, SH_NodeShape>> \in g
    /\ Objects(g, item, SH_or) = {}

\* The product of the sizes of a set of OR lists (1 for no list).
RECURSIVE Choices(_, _)
Choices(g, ors) ==
    IF ors = {} THEN 1
    ELSE LET o == CHOOSE x \in ors : TRUE
         IN Len(Collection(g, o)) * Choices(g, ors \ {o})

\* The OR group names made during the generate_template call recorded in out.
CallGroups ==
    {ctx.made[k] : k \in {j \in out.first..Len(ctx.made) :
                             ctx.made[j] = gensym("shape_list", j)}}

\* Template t holds every statement of template u.
Holds(t, u) == Range(u) \subseteq Range(t)

\* generate_template returned for a shape all of whose OR alternatives
\* contribute exactly one template each.
SimpleOrCall ==
    /\ out.kind = "generate_template"
    /\ out.result.kind = "Return"
    /\ \A o \in Objects(graph, out.shape, SH_or) :
          \A item \in Range(Collection(graph, o)) : ContributesOne(graph, item)

\* C4: OR cross-product cardinality.  When generate_template returns for a
\* node shape whose OR-clauses have alternatives contributing one template
\* each, it returns as many variants as there are choices of one alternative
\* from each OR group (m*n for two groups of m and n, one for no OR-clause),
\* and for every such choice a variant that holds the chosen templates.
C4_OrCrossProduct ==
    SimpleOrCall =>
        /\ Len(out.result.val) = Choices(graph, Objects(graph, out.shape, SH_or))
        /\ Cardinality(Range(out.result.val)) = Len(out.result.val)
        /\ \A choice \in [CallGroups -> DOMAIN out.result.val] :
              (\A n \in CallGroups : choice[n] \in DOMAIN ctx.templates[n]) =>
                  \E k \in DOMAIN out.result.val :
                      \A n \in CallGroups :
                          Holds(out.result.val[k], ctx.templates[n][choice[n]])

\* generate_template returned six variants for a shape with two OR-clauses of
\* two and three one-template alternatives.
C4_Witness ==
    /\ SimpleOrCall
    /\ Cardinality(Objects(graph, out.shape, SH_or)) = 2
    /\ Cardinality(CallGroups) = 2
    /\ Len(out.result.val) = 6

\* C5: to_dict emits one entry per generated template variant: a name that
\* holds k variants in the context contributes k entries to the mapping.
C5_EntryPerVariant ==
    pc = "dumped" =>
        \A name \in DOMAIN ctx.templates :
            Len(ctx.templates[name])
                = Cardinality({n \in DOMAIN res.entries : n = name})

\* C6: Failure isolation between roots.  When a document has several root
\* shapes and generate_template fails for one, a Context is still constructed
\* and holds the templates of every other root.
C6_FailureIsolation ==
    (pc = "raised" /\ ctx.root # None /\ Len(ctx.root_shapes) > 1) =>
        /\ ctx.kind = "Context"
        /\ \A r \in Range(ctx.root_shapes) \ {ctx.root} :
              r \in DOMAIN ctx.templates /\ Len(ctx.templates[r]) >= 1

\* The placeholders of a template.
Placeholders(t) ==
    {n \in {t[i][1] : i \in DOMAIN t} \cup {t[i][3] : i \in DOMAIN t} :
        StartsWithMark(n)}

\* The identifiers of a document.
Identifiers(g) == AllNodes(g) \cup {t[2] : t \in g}

\* The variants of a list share no placeholder.
Disjoint(variants) ==
    \A i, j \in DOMAIN variants :
        i # j => Placeholders(variants[i]) \cap Placeholders(variants[j]) = {}

----------------------------------------------------------------------------
(* Claims about the property chains (specification Spec)                    *)

\* A node with no statements of its own: what _path_to_template takes for a
\* single property (line 190).
Atomic(g, n) == n # None /\ ~\E t \in g : t[1] = n

\* The steps of a path that is an atomic predicate or a list of atomic
\* predicates; <<>> for every other path.
ChainSteps(g, path) ==
    IF Atomic(g, path) THEN <<path>>
    ELSE IF /\ \E t \in g : t[1] = path /\ t[2] = RDF_first
            /\ \A i \in DOMAIN Collection(g, path) :
                   Atomic(g, Collection(g, path)[i])
        THEN Collection(g, path)
    ELSE <<>>

\* The template t starts with the chain of the steps from root: statement i
\* goes over step i from the root (i = 1) or from the object of statement
\* i - 1 to a placeholder made for it alone.
IsChain(t, steps, root) ==
    /\ Len(t) >= Len(steps)
    /\ \A i \in DOMAIN steps :
          /\ t[i][2] = steps[i]
          /\ t[i][1] = (IF i = 1 THEN root ELSE t[i - 1][3])
          /\ StartsWithMark(t[i][3])
          /\ t[i][3] # root
          /\ \A j \in 1..(i - 1) : t[j][3] # t[i][3]

\* The template t is the chain of the steps and, after it, what the class
\* constraints ask for: one type statement on the end of the chain if there
\* is a class, and with no class no statement on the chain's end by it.
ChainThenClass(t, steps, root, classes) ==
    /\ IsChain(t, steps, root)
    /\ classes # {} =>
          /\ Len(t) = Len(steps) + 1
          /\ \E c \in classes :
                 t[Len(t)] = <<t[Len(steps)][3], RDF_type, c>>
    /\ classes = {} => Len(t) = Len(steps)

\* A call of _prop_shape_to_template on a property shape whose path is an
\* atomic predicate or a sequence of atomic predicates.
ChainCall ==
    /\ out.kind = "_prop_shape_to_template"
    /\ ChainSteps(graph, Value(graph, out.shape, SH_path)) # <<>>
    /\ Objects(graph, out.shape, SH_qualifiedValueShape) = {}

UnaryPathPredicates ==
    {SH_zeroOrOnePath, SH_oneOrMorePath, SH_zeroOrMorePath, SH_inversePath}

\* The predicate p of a path node that is zeroOrOne(p), oneOrMore(p),
\* zeroOrMore(p) or inverse(p) over an atomic predicate p: the node's only
\* statement.  None for every other path.
HopOf(g, path) ==
    IF /\ path # None
       /\ Cardinality({t \in g : t[1] = path}) = 1
       /\ \E t \in g : /\ t[1] = path
                        /\ t[2] \in UnaryPathPredicates
                        /\ Atomic(g, t[3])
        THEN (CHOOSE t \in g : t[1] = path)[3]
    ELSE None

\* The operator of such a path node.
HopOperator(g, path) == (CHOOSE t \in g : t[1] = path)[2]

\* A call of _prop_shape_to_template on a property shape whose path is a
\* quantified or inverse path over an atomic predicate.
HopCall ==
    /\ out.kind = "_prop_shape_to_template"
    /\ HopOf(graph, Value(graph, out.shape, SH_path)) # None
    /\ Objects(graph, out.shape, SH_qualifiedValueShape) = {}

\* C12: for a property shape whose path is zeroOrOne(p), oneOrMore(p),
\* zeroOrMore(p) or inverse(p) over an atomic predicate p, the synthesis
\* emits the chain of the bare path p: exactly one statement from the root
\* placeholder over p to one fresh placeholder (which carries the class
\* constraint, if there is one).
C12_SingleHop ==
    HopCall =>
        /\ out.result.kind = "Return"
        /\ Len(out.result.val) = 1
        /\ ChainThenClass(out.result.val[1],
                          <<HopOf(graph, Value(graph, out.shape, SH_path))>>,
                          out.root_param,
                          Objects(graph, out.shape, SH_class))

----------------------------------------------------------------------------
(* Claims about the targets of generate_template (specification Spec)       *)

\* The target descriptors, in the order of their priority.
Descriptors == <<SH_targetClass, SH_targetNode, SH_class>>

\* The first descriptor the shape has a statement of; None with no descriptor.
FirstDescriptor(g, shape) ==
    IF \A i \in DOMAIN Descriptors : Objects(g, shape, Descriptors[i]) = {}
        THEN None
    ELSE Descriptors[CHOOSE i \in DOMAIN Descriptors :
                        /\ Objects(g, shape, Descriptors[i]) # {}
                        /\ \A j \in 1..(i - 1) :
                               Objects(g, shape, Descriptors[j]) = {}]

\* A call of generate_template that returned, on a shape with a descriptor.
TargetCall ==
    /\ out.kind = "generate_template"
    /\ out.result.kind = "Return"
    /\ FirstDescriptor(graph, out.shape) # None

\* The type statements of the template t on the placeholder param.
TypeStatements(t, param) ==
    {i \in DOMAIN t : t[i][1] = param /\ t[i][2] = RDF_type}

\* The variant t starts with the type statement of the shape's placeholder
\* for the class of its first descriptor.
TargetFirst(t) ==
    /\ Len(t) >= 1
    /\ t[1][1] = gensym("param", out.first)
    /\ t[1][2] = RDF_type
    /\ t[1][3] \in Objects(graph, out.shape,
                            FirstDescriptor(graph, out.shape))

\* C13: every variant generate_template returns for a shape with a target
\* descriptor holds exactly one type statement on the shape's own fresh
\* placeholder; its class is that of the first descriptor present in the
\* order targetClass, targetNode, class, and it is the first statement of
\* the variant, before the OR-clause blocks and the property blocks.
C13_TargetPriority ==
    TargetCall =>
        \A k \in DOMAIN out.result.val :
            /\ TargetFirst(out.result.val[k])
            /\ TypeStatements(out.result.val[k],
                              gensym("param", out.first)) = {1}

----------------------------------------------------------------------------
(* Claims about both programs (specification SpecAll)                       *)

\* The predicates a shape refers to its parts and to other shapes with.
StructuralPredicates ==
    {SH_node, SH_or, SH_not, SH_property, SH_qualifiedValueShape,
     SH_targetNode, SH_path, SH_inversePath, SH_zeroOrOnePath,
     SH_oneOrMorePath, SH_zeroOrMorePath, SH_alternativePath,
     RDF_first, RDF_rest}

\* The nodes the nodes of from refer to, directly or through others.
RECURSIVE Referred(_, _, _)
Referred(g, from, seen) ==
    IF {t[3] : t \in {u \in g : u[1] \in from
                                  /\ u[2] \in StructuralPredicates}}
           \subseteq seen
        THEN seen
    ELSE Referred(g,
             {t[3] : t \in {u \in g : u[1] \in from
                                      /\ u[2] \in StructuralPredicates}},
             seen \cup {t[3] : t \in {u \in g : u[1] \in from
                                      /\ u[2] \in StructuralPredicates}})

\* No cyclic structural reference: no node refers to itself, directly or
\* through others.
Acyclic(g) == \A n \in {t[1] : t \in g} : n \notin Referred(g, {n}, {})

\* C14: on a document with no cyclic reference, a node shape with none of
\* targetClass, targetNode and class is no error: NodeShape.parse gives a
\* record whose target is null, and generate_template on the shape, called
\* by the constructor of the Context or by its user, returns its variants
\* and does not raise, whether the shape declares property shapes or not.
C14_NoTargetNoError ==
    Acyclic(graph) =>
        /\ sg.kind = "ShapeGraph" =>
              \A i \in DOMAIN sg.nodes :
                  (/\ sg.nodes[i].kind = "NodeShape"
                   /\ FirstDescriptor(graph, sg.nodes[i]._name) = None)
                      => IsNone(sg.nodes[i].target)
        /\ (ctx.kind = "Raise" /\ ctx.root # None)
              => FirstDescriptor(graph, ctx.root) # None
        /\ (out.kind = "generate_template"
               /\ FirstDescriptor(graph, out.shape) = None)
              => out.result.kind = "Return"

\* No call has run into the recursion limit of the interpreter: none has
\* entered a call of the same function on the same node that is still on
\* its stack.
NoRecursionError ==
    /\ ~(sg.kind = "Raise" /\ sg.exc = "RecursionError")
    /\ ~(ctx.kind = "Raise" /\ ctx.exc = "RecursionError")
    /\ out.kind \in {"generate_template", "_prop_shape_to_template"}
          => out.result.exc # "RecursionError"

\* A dependency query has returned its set, or raised KeyError for a node
\* the ShapeGraph does not index.
DependenciesReturned ==
    out.kind \in {"dependencies", "dependents"}
        => \/ out.result.kind = "Return"
           \/ out.result.kind = "Raise" /\ out.result.exc = "KeyError"

\* C15: on a document with no cyclic structural reference the construction
\* of a ShapeGraph and of a Context and every generate_template call come
\* to an end without unbounded recursion, the loop of the constructor over
\* the roots ends (the Context is constructed, or an exception has left the
\* constructor), and a dependency query ends on every document.
C15_Termination ==
    /\ [](Acyclic(graph) => NoRecursionError)
    /\ []DependenciesReturned
    /\ (pc = "roots") ~> (pc \in {"constructed", "raised"})

\* On a document with an OR-clause alternative, a sh:node reference and two
\* shapes pointing at each other outside of their structure, the Context
\* has been constructed (with the template of the alternative generated),
\* the ShapeGraph too, and a recursive dependency query has returned.
C15_Witness ==
    /\ Acyclic(graph)
    /\ <<"ex:A", "ex:seeAlso", "ex:B">> \in graph
    /\ <<"ex:R", SH_node, "ex:A">> \in graph
    /\ ctx.kind = "Context"
    /\ ctx.todo = <<>>
    /\ \E n \in DOMAIN ctx.templates :
          n = gensym("shape_list", 2) /\ Len(ctx.templates[n]) = 1
    /\ sg.kind = "ShapeGraph"
    /\ out.kind = "dependencies"
    /\ out.recursive
    /\ out.result.kind = "Return"
    /\ {"ex:A", "ex:B"} \subseteq out.result.val

\* What a step of the two programs leaves as it was: the graph, always; the
\* ShapeGraph, when it is queried; and of a constructed Context everything
\* but its template map (made is the record of the random source, no field
\* of the Context).
ReadOnlyStep ==
    /\ graph' = graph
    /\ pc = "indexed" => sg' = sg
    /\ pc \in {"constructed", "called"} =>
          ctx' = [ctx EXCEPT !.templates = ctx'.templates,
                             !.made = ctx'.made]

====
